---- MODULE Spec2Model ----
(***************************************************************************)
(* Model of the call controller of babel-stream-talk:                      *)
(*   src/src/components/VideoCall.tsx  (VideoCall: initializeCall,         *)
(*       handleSignalingMessage, handleCaption, cleanup, endCall)          *)
(*   src/src/utils/webrtc.ts           (WebRTCManager, WebSocketManager)   *)
(*                                                                         *)
(* The browser objects the code drives are modelled by their specified     *)
(* behaviour: RTCPeerConnection by its signaling state machine and its     *)
(* operations chain (W3C WebRTC 4.4.1), WebSocket by its readyState.       *)
(* An async handler is split at its awaits: the synchronous part up to the *)
(* first await runs in Deliver, each resumption runs in Settle.            *)
(***************************************************************************)
EXTENDS Integers, Sequences, FiniteSets

VARIABLES
    initializeCall,   \* where the initializeCall() of the mount is
    localStream,      \* WebRTCManager.localStream: "null" or "live"
    peerConnection,   \* WebRTCManager.peerConnection: NullPc or a record
    chain,            \* operations chain of the peer connection; each entry
                      \* is a handler suspended on the operation it awaits
    signalingWs,      \* readyState of WebSocketManager.signalingWs
    captionsWs,       \* readyState of WebSocketManager.captionsWs
    inbox,            \* envelopes in flight from the relay to onmessage
    outbox,           \* envelopes transmitted on the signaling socket
    connectionStatus, \* React state connectionStatus
    isConnected,      \* React state isConnected
    toast,            \* last toast shown
    captions,         \* React state captions
    sent,             \* per kind, how many envelopes were transmitted
    emitted,          \* local candidates the platform has discovered
    lost,             \* candidates whose addIceCandidate was rejected
    lastRelease,      \* release actions of the most recent cleanup() call
    cleanupRuns,      \* consecutive cleanup() calls since the last acquisition
    members,          \* relay: controllers that have joined the room
    injected,         \* envelopes the network has produced so far
    isAudioEnabled,   \* React state isAudioEnabled
    isVideoEnabled,   \* React state isVideoEnabled
    trackEnabled      \* MediaStreamTrack.enabled of the audio and of the
                      \* video tracks of localStream (as new while no stream
                      \* is held)

vars == <<initializeCall, localStream, peerConnection, chain, signalingWs,
          captionsWs, inbox, outbox, connectionStatus, isConnected, toast,
          captions, sent, emitted, lost, lastRelease, cleanupRuns, members,
          injected, isAudioEnabled, isVideoEnabled, trackEnabled>>

(* ------------------------------ bounds -------------------------------- *)
MaxInject == 3
MaxLocalCand == 1
MaxCaptions == 3

(* ----------------------------- constants ------------------------------ *)
Ctrl == {"A", "B"}
Solo == {"A"}
Room == "r1"
ForeignRoom == "r2"
Rooms == {Room, ForeignRoom}
Speakers == {"You", "Remote", "Guest"}
Inbound == {"peer-joined", "offer", "answer", "ice-candidate", "peer-left"}
Outbound == {"join-room", "offer", "answer", "ice-candidate"}

Envelope(t, r, d) == [type |-> t, roomId |-> r, data |-> d]

NoDesc == [type |-> "none", id |-> 0]

NullPc == [state |-> "null", pendLocal |-> NoDesc, curLocal |-> NoDesc,
           pendRemote |-> NoDesc, curRemote |-> NoDesc, applied |-> <<>>,
           made |-> 0, offersMade |-> 0]

\* new RTCPeerConnection(configuration): signaling state "stable", no
\* descriptions, no remote candidates.
NewPc == [NullPc EXCEPT !.state = "stable"]

\* The tracks getUserMedia hands out are enabled.
NewTracks == [audio |-> TRUE, video |-> TRUE]

(* ------------------- RTCPeerConnection (platform) --------------------- *)
\* remoteDescription / localDescription: the pending one, else the current.
RemoteDescription(p) == IF p.pendRemote # NoDesc THEN p.pendRemote ELSE p.curRemote

LocalDescription(p) == IF p.pendLocal # NoDesc THEN p.pendLocal ELSE p.curLocal

\* The negotiation state of the spec, read off the peer connection.
NegState(p) ==
    CASE p.state = "null" -> "Closed"
      [] p.state = "have-local-offer" -> "HaveLocalOffer"
      [] p.state = "have-remote-offer" -> "HaveRemoteOffer"
      [] p.state = "stable" /\ p.curRemote = NoDesc /\ p.curLocal = NoDesc -> "Idle"
      [] OTHER -> "Stable"

\* pc.createOffer(): rejected with InvalidStateError unless the signaling
\* state is stable or have-local-offer.
CanCreateOffer(p) == p.state \in {"stable", "have-local-offer"}

\* pc.createAnswer(): rejected unless the signaling state is have-remote-offer.
CanCreateAnswer(p) == p.state = "have-remote-offer"

\* pc.setLocalDescription(offer)
CanSetLocalOffer(p) == p.state \in {"stable", "have-local-offer"}

SetLocalOffer(p, d) == [p EXCEPT !.state = "have-local-offer", !.pendLocal = d]

\* pc.setLocalDescription(answer)
CanSetLocalAnswer(p) == p.state = "have-remote-offer"

SetLocalAnswer(p, d) ==
    [p EXCEPT !.state = "stable", !.curLocal = d, !.curRemote = p.pendRemote,
              !.pendLocal = NoDesc, !.pendRemote = NoDesc]

\* pc.setRemoteDescription(offer): in have-local-offer the pending local
\* offer is rolled back first.
CanSetRemoteOffer(p) == p.state \in {"stable", "have-remote-offer", "have-local-offer"}

SetRemoteOffer(p, d) ==
    [p EXCEPT !.state = "have-remote-offer", !.pendRemote = d, !.pendLocal = NoDesc]

\* pc.setRemoteDescription(answer)
CanSetRemoteAnswer(p) == p.state = "have-local-offer"

SetRemoteAnswer(p, d) ==
    [p EXCEPT !.state = "stable", !.curRemote = d, !.curLocal = p.pendLocal,
              !.pendLocal = NoDesc, !.pendRemote = NoDesc]

\* pc.addIceCandidate(candidate): rejected with InvalidStateError while
\* remoteDescription is null.
CanAddIceCandidate(p) == RemoteDescription(p) # NoDesc

AddIceCandidate(p, cand) == [p EXCEPT !.applied = Append(@, cand)]

(* ------------------------- WebSocketManager --------------------------- *)
\* Mutant of SendSignaling: the readyState check is missing.
SendSignalingUnchecked(rs, q, env) == Append(q, env)

\* sendSignaling: with the socket in readyState rs and q already
\* transmitted, transmit env only when the socket is OPEN, else do nothing.
SendSignaling(rs, q, env) == IF rs = "open" THEN Append(q, env) ELSE q

\* The transmitted envelopes of q counted per kind on top of n.
Counted(n, q) ==
    [k \in Outbound |-> n[k] + Len(SelectSeq(q, LAMBDA e : e.type = k))]

\* WebSocket.readyState, and "null" for a handle that was never set.
ReadyStates == {"null", "connecting", "open", "closing", "closed"}

\* ws?.close(): starts the closing handshake of a CONNECTING or OPEN socket;
\* nothing happens on a null handle or on a CLOSING or CLOSED socket.
Closes(ws) == ws \in {"connecting", "open"}

CloseWs(ws) == IF Closes(ws) THEN "closing" ELSE ws

(* -------------------------------- Init -------------------------------- *)
\* The component has mounted: useRef created both managers, useState set
\* the initial values, and the effect called initializeCall(), which is
\* suspended in getUserMedia.
Init ==
    /\ initializeCall = [c \in Ctrl |-> "awaiting-media"]
    /\ localStream = [c \in Ctrl |-> "null"]
    /\ peerConnection = [c \in Ctrl |-> NullPc]
    /\ chain = [c \in Ctrl |-> <<>>]
    /\ signalingWs = [c \in Ctrl |-> "null"]
    /\ captionsWs = [c \in Ctrl |-> "null"]
    /\ inbox = [c \in Ctrl |-> <<>>]
    /\ outbox = [c \in Ctrl |-> <<>>]
    /\ connectionStatus = [c \in Ctrl |-> "connecting"]
    /\ isConnected = [c \in Ctrl |-> FALSE]
    /\ toast = [c \in Ctrl |-> "none"]
    /\ captions = [c \in Ctrl |-> <<>>]
    /\ sent = [c \in Ctrl |-> [k \in Outbound |-> 0]]
    /\ emitted = [c \in Ctrl |-> 0]
    /\ lost = [c \in Ctrl |-> {}]
    /\ lastRelease = [c \in Ctrl |-> <<>>]
    /\ cleanupRuns = [c \in Ctrl |-> 0]
    /\ members = {}
    /\ injected = 0
    /\ isAudioEnabled = [c \in Ctrl |-> TRUE]
    /\ isVideoEnabled = [c \in Ctrl |-> TRUE]
    /\ trackEnabled = [c \in Ctrl |-> NewTracks]

(* --------------------------- initializeCall --------------------------- *)
\* getUserMedia resolves: the rest of the try block runs without a yield.
MediaGranted(c) ==
    /\ initializeCall[c] = "awaiting-media"
    /\ initializeCall' = [initializeCall EXCEPT ![c] = "resolved"]
    /\ localStream' = [localStream EXCEPT ![c] = "live"]
    /\ signalingWs' = [signalingWs EXCEPT ![c] = "connecting"]
    /\ captionsWs' = [captionsWs EXCEPT ![c] = "connecting"]
    /\ peerConnection' = [peerConnection EXCEPT ![c] = NewPc]
    /\ connectionStatus' = [connectionStatus EXCEPT ![c] = "connecting"]
    /\ cleanupRuns' = [cleanupRuns EXCEPT ![c] = 0]
    /\ trackEnabled' = [trackEnabled EXCEPT ![c] = NewTracks]
    /\ UNCHANGED <<isAudioEnabled, isVideoEnabled,
                   chain, inbox, outbox, isConnected, toast, captions, sent,
                   emitted, lost, lastRelease, members, injected>>

\* Mutant of MediaDenied: the sockets are connected before the media is
\* asked for, so a refusal leaves them connecting.
MediaDeniedAfterConnect(c) ==
    /\ initializeCall[c] = "awaiting-media"
    /\ initializeCall' = [initializeCall EXCEPT ![c] = "rejected"]
    /\ signalingWs' = [signalingWs EXCEPT ![c] = "connecting"]
    /\ captionsWs' = [captionsWs EXCEPT ![c] = "connecting"]
    /\ connectionStatus' = [connectionStatus EXCEPT ![c] = "disconnected"]
    /\ toast' = [toast EXCEPT ![c] = "connection-error"]
    /\ UNCHANGED <<isAudioEnabled, isVideoEnabled, trackEnabled,
                   localStream, peerConnection, chain, inbox, outbox,
                   isConnected, captions, sent, emitted, lost, lastRelease,
                   cleanupRuns, members, injected>>

\* getUserMedia rejects (permission denied): the catch block runs.
MediaDenied(c) ==
    /\ initializeCall[c] = "awaiting-media"
    /\ initializeCall' = [initializeCall EXCEPT ![c] = "rejected"]
    /\ connectionStatus' = [connectionStatus EXCEPT ![c] = "disconnected"]
    /\ toast' = [toast EXCEPT ![c] = "connection-error"]
    /\ UNCHANGED <<isAudioEnabled, isVideoEnabled, trackEnabled,
                   localStream, peerConnection, chain, signalingWs, captionsWs,
                   inbox, outbox, isConnected, captions, sent, emitted, lost,
                   lastRelease, cleanupRuns, members, injected>>

(* ------------------------- socket events ------------------------------ *)
\* signalingWs.onopen: the join-room envelope is sent.
SigOpen(c) ==
    /\ signalingWs[c] = "connecting"
    /\ signalingWs' = [signalingWs EXCEPT ![c] = "open"]
    /\ LET q == SendSignaling("open", <<>>, Envelope("join-room", Room, 0))
       IN /\ outbox' = [outbox EXCEPT ![c] = @ \o q]
          /\ sent' = [sent EXCEPT ![c] = Counted(@, q)]
    /\ UNCHANGED <<isAudioEnabled, isVideoEnabled, trackEnabled,
                   initializeCall, localStream, peerConnection, chain,
                   captionsWs, inbox, connectionStatus, isConnected, toast,
                   captions, emitted, lost, lastRelease, cleanupRuns, members,
                   injected>>

\* captionsWs.onopen: logs only.
CapOpen(c) ==
    /\ captionsWs[c] = "connecting"
    /\ captionsWs' = [captionsWs EXCEPT ![c] = "open"]
    /\ UNCHANGED <<isAudioEnabled, isVideoEnabled, trackEnabled,
                   initializeCall, localStream, peerConnection, chain,
                   signalingWs, inbox, outbox, connectionStatus, isConnected,
                   toast, captions, sent, emitted, lost, lastRelease,
                   cleanupRuns, members, injected>>

\* signalingWs.onerror / onclose: the socket ends (the closing handshake
\* completes, the server closes or the network fails); both handlers only
\* log. Envelopes still in flight to the socket are never delivered.
SigClose(c) ==
    /\ signalingWs[c] \in {"connecting", "open", "closing"}
    /\ signalingWs' = [signalingWs EXCEPT ![c] = "closed"]
    /\ inbox' = [inbox EXCEPT ![c] = <<>>]
    /\ UNCHANGED <<isAudioEnabled, isVideoEnabled, trackEnabled,
                   initializeCall, localStream, peerConnection, chain,
                   captionsWs, outbox, connectionStatus, isConnected, toast,
                   captions, sent, emitted, lost, lastRelease, cleanupRuns,
                   members, injected>>

\* captionsWs.onerror / onclose: logs only.
CapClose(c) ==
    /\ captionsWs[c] \in {"connecting", "open", "closing"}
    /\ captionsWs' = [captionsWs EXCEPT ![c] = "closed"]
    /\ UNCHANGED <<isAudioEnabled, isVideoEnabled, trackEnabled,
                   initializeCall, localStream, peerConnection, chain,
                   signalingWs, inbox, outbox, connectionStatus, isConnected,
                   toast, captions, sent, emitted, lost, lastRelease,
                   cleanupRuns, members, injected>>

\* The network hands the open signaling socket an envelope of any inbound
\* kind, for the session's room or for another one.
Inject(c, t, r) ==
    /\ signalingWs[c] = "open"
    /\ injected < MaxInject
    /\ injected' = injected + 1
    /\ inbox' = [inbox EXCEPT ![c] = Append(@, Envelope(t, r, injected + 1))]
    /\ UNCHANGED <<isAudioEnabled, isVideoEnabled, trackEnabled,
                   initializeCall, localStream, peerConnection, chain,
                   signalingWs, captionsWs, outbox, connectionStatus,
                   isConnected, toast, captions, sent, emitted, lost,
                   lastRelease, cleanupRuns, members>>

(* ---------------------- handleSignalingMessage ------------------------ *)
\* A handler suspended on the operation o while it handles the envelope m.
Op(o, m) == [op |-> o, data |-> m.data, roomId |-> m.roomId, kind |-> m.type]

\* Mutant of Dispatch: the 'offer' case is handled like the 'answer' case.
DispatchOfferAsAnswer(m) ==
    CASE m.type = "peer-joined" -> <<Op("createOffer", m)>>
      [] m.type = "offer" -> <<Op("setRemoteAnswer", m)>>
      [] m.type = "answer" -> <<Op("setRemoteAnswer", m)>>
      [] m.type = "ice-candidate" -> <<Op("addIceCandidate", m)>>
      [] OTHER -> <<>>

\* Mutant of Dispatch: the 'ice-candidate' case is missing.
DispatchNoCandidate(m) ==
    CASE m.type = "peer-joined" -> <<Op("createOffer", m)>>
      [] m.type = "offer" -> <<Op("setRemoteOffer", m)>>
      [] m.type = "answer" -> <<Op("setRemoteAnswer", m)>>
      [] OTHER -> <<>>

\* Mutant of Dispatch: the 'offer' case makes an offer of its own.
DispatchOfferOffers(m) ==
    CASE m.type \in {"peer-joined", "offer"} -> <<Op("createOffer", m)>>
      [] m.type = "answer" -> <<Op("setRemoteAnswer", m)>>
      [] m.type = "ice-candidate" -> <<Op("addIceCandidate", m)>>
      [] OTHER -> <<>>

\* Mutant of Dispatch: the 'peer-left' case starts a new offer.
DispatchPeerLeftOffers(m) ==
    CASE m.type \in {"peer-joined", "peer-left"} -> <<Op("createOffer", m)>>
      [] m.type = "offer" -> <<Op("setRemoteOffer", m)>>
      [] m.type = "answer" -> <<Op("setRemoteAnswer", m)>>
      [] m.type = "ice-candidate" -> <<Op("addIceCandidate", m)>>
      [] OTHER -> <<>>

\* The switch of handleSignalingMessage up to its first await: the platform
\* operation the handler suspends on (none for peer-left and for a kind the
\* switch has no case for).
Dispatch(m) ==
    CASE m.type = "peer-joined" -> <<Op("createOffer", m)>>
      [] m.type = "offer" -> <<Op("setRemoteOffer", m)>>
      [] m.type = "answer" -> <<Op("setRemoteAnswer", m)>>
      [] m.type = "ice-candidate" -> <<Op("addIceCandidate", m)>>
      [] OTHER -> <<>>

\* The guard every WebRTCManager negotiation method starts with: it throws
\* 'Peer connection not initialized' on a null handle, and the handler's
\* catch logs the error.
Guarded(p, ops) == IF p.state = "null" THEN <<>> ELSE ops

\* signalingWs.onmessage -> handleSignalingMessage(message), run to its
\* first await.
Deliver(c) ==
    /\ signalingWs[c] = "open"
    /\ inbox[c] # <<>>
    /\ LET m == Head(inbox[c])
       IN /\ inbox' = [inbox EXCEPT ![c] = Tail(@)]
          /\ chain' = [chain EXCEPT ![c] = @ \o Guarded(peerConnection[c], Dispatch(m))]
          /\ isConnected' = [isConnected EXCEPT ![c] =
                                IF m.type = "peer-left" THEN FALSE ELSE @]
          /\ connectionStatus' = [connectionStatus EXCEPT ![c] =
                                IF m.type = "peer-left" THEN "disconnected" ELSE @]
          /\ toast' = [toast EXCEPT ![c] =
                                IF m.type = "peer-left" THEN "peer-left" ELSE @]
    /\ UNCHANGED <<isAudioEnabled, isVideoEnabled, trackEnabled,
                   initializeCall, localStream, peerConnection, signalingWs,
                   captionsWs, outbox, captions, sent, emitted, lost,
                   lastRelease, cleanupRuns, members, injected>>

\* What a resumption yields: the peer connection after the operation, the
\* operation the handler suspends on next, the envelopes it hands to
\* sendSignaling, the candidates rejected, and whether ontrack fired.
Outcome(p, next, send, rejected, track) ==
    [pc |-> p, next |-> next, send |-> send, rejected |-> rejected, track |-> track]

\* Mutant of Thrown: the catch ends the call by dropping the peer connection.
ThrownEndsCall(p) == Outcome(NullPc, <<>>, <<>>, {}, FALSE)

\* The operation was rejected: the handler's catch logs the error.
Thrown(p) == Outcome(p, <<>>, <<>>, {}, FALSE)

\* ontrack fires while the first remote description is applied.
FirstRemote(p) == RemoteDescription(p) = NoDesc

\* The operation at the head of the chain runs, and the handler awaiting it
\* resumes and runs to its next await or to its end.
Resume(p, h) ==
    CASE h.op = "createOffer" ->
            IF CanCreateOffer(p)
            THEN Outcome([p EXCEPT !.made = @ + 1, !.offersMade = @ + 1],
                         <<[h EXCEPT !.op = "setLocalOffer", !.data = p.made + 1]>>,
                         <<>>, {}, FALSE)
            ELSE Thrown(p)
      [] h.op = "setLocalOffer" ->
            IF CanSetLocalOffer(p)
            THEN Outcome(SetLocalOffer(p, [type |-> "offer", id |-> h.data]), <<>>,
                         <<Envelope("offer", Room, h.data)>>, {}, FALSE)
            ELSE Thrown(p)
      [] h.op = "setRemoteOffer" ->
            IF CanSetRemoteOffer(p)
            THEN Outcome(SetRemoteOffer(p, [type |-> "offer", id |-> h.data]),
                         <<[h EXCEPT !.op = "createAnswer"]>>, <<>>, {}, FirstRemote(p))
            ELSE Thrown(p)
      [] h.op = "createAnswer" ->
            IF CanCreateAnswer(p)
            THEN Outcome([p EXCEPT !.made = @ + 1],
                         <<[h EXCEPT !.op = "setLocalAnswer", !.data = p.made + 1]>>,
                         <<>>, {}, FALSE)
            ELSE Thrown(p)
      [] h.op = "setLocalAnswer" ->
            IF CanSetLocalAnswer(p)
            THEN Outcome(SetLocalAnswer(p, [type |-> "answer", id |-> h.data]), <<>>,
                         <<Envelope("answer", Room, h.data)>>, {}, FALSE)
            ELSE Thrown(p)
      [] h.op = "setRemoteAnswer" ->
            IF CanSetRemoteAnswer(p)
            THEN Outcome(SetRemoteAnswer(p, [type |-> "answer", id |-> h.data]),
                         <<>>, <<>>, {}, FirstRemote(p))
            ELSE Thrown(p)
      [] OTHER ->
            IF CanAddIceCandidate(p)
            THEN Outcome(AddIceCandidate(p, h.data), <<>>, <<>>, {}, FALSE)
            ELSE Outcome(p, <<>>, <<>>, {h}, FALSE)

\* The transmission of the envelopes a resumption hands to sendSignaling.
SendAll(rs, send) ==
    IF send = <<>> THEN <<>> ELSE SendSignaling(rs, <<>>, send[1])

Settle(c) ==
    /\ chain[c] # <<>>
    /\ LET r == Resume(peerConnection[c], Head(chain[c]))
           q == SendAll(signalingWs[c], r.send)
       IN /\ peerConnection' = [peerConnection EXCEPT ![c] = r.pc]
          /\ chain' = [chain EXCEPT ![c] = Tail(@) \o r.next]
          /\ outbox' = [outbox EXCEPT ![c] = @ \o q]
          /\ sent' = [sent EXCEPT ![c] = Counted(@, q)]
          /\ lost' = [lost EXCEPT ![c] = @ \cup r.rejected]
          /\ isConnected' = [isConnected EXCEPT ![c] = IF r.track THEN TRUE ELSE @]
          /\ connectionStatus' = [connectionStatus EXCEPT ![c] =
                                    IF r.track THEN "connected" ELSE @]
          /\ toast' = [toast EXCEPT ![c] = IF r.track THEN "peer-connected" ELSE @]
    /\ UNCHANGED <<isAudioEnabled, isVideoEnabled, trackEnabled,
                   initializeCall, localStream, signalingWs, captionsWs, inbox,
                   captions, emitted, lastRelease, cleanupRuns, members,
                   injected>>

\* peerConnection.onicecandidate -> the onIceCandidate callback of
\* initializeCall: gathering starts once a local description is set.
LocalCandidate(c) ==
    /\ peerConnection[c].state # "null"
    /\ LocalDescription(peerConnection[c]) # NoDesc
    /\ emitted[c] < MaxLocalCand
    /\ emitted' = [emitted EXCEPT ![c] = @ + 1]
    /\ LET q == SendSignaling(signalingWs[c], <<>>,
                              Envelope("ice-candidate", Room, emitted[c] + 1))
       IN /\ outbox' = [outbox EXCEPT ![c] = @ \o q]
          /\ sent' = [sent EXCEPT ![c] = Counted(@, q)]
    /\ UNCHANGED <<isAudioEnabled, isVideoEnabled, trackEnabled,
                   initializeCall, localStream, peerConnection, chain,
                   signalingWs, captionsWs, inbox, connectionStatus,
                   isConnected, toast, captions, lost, lastRelease,
                   cleanupRuns, members, injected>>

(* ------------------------------ cleanup ------------------------------- *)
\* The handles and flags cleanup() works on, with the release actions
\* performed so far.
CallState(c) ==
    [localStream |-> localStream[c], peerConnection |-> peerConnection[c],
     signalingWs |-> signalingWs[c], captionsWs |-> captionsWs[c],
     isConnected |-> isConnected[c], connectionStatus |-> connectionStatus[c],
     released |-> <<>>]

Released(cond, what) == IF cond THEN <<what>> ELSE <<>>

\* Mutant of WebRTCCleanup: the handles are not set to null.
WebRTCCleanupKeepsHandles(s) ==
    [s EXCEPT !.released = @ \o Released(s.localStream # "null", "media")
                             \o Released(s.peerConnection.state # "null", "pc")]

\* WebRTCManager.cleanup(): stop the tracks, close the connection, drop
\* both handles.
WebRTCCleanup(s) ==
    [s EXCEPT !.released = @ \o Released(s.localStream # "null", "media")
                             \o Released(s.peerConnection.state # "null", "pc"),
              !.localStream = "null",
              !.peerConnection = NullPc]

\* Mutant of Disconnect: the signaling socket is not closed.
DisconnectKeepsSignaling(s) ==
    [s EXCEPT !.released = @ \o Released(Closes(s.captionsWs), "captions"),
              !.captionsWs = CloseWs(@)]

\* WebSocketManager.disconnect(): close both sockets; the handles stay.
Disconnect(s) ==
    [s EXCEPT !.released = @ \o Released(Closes(s.signalingWs), "signaling")
                             \o Released(Closes(s.captionsWs), "captions"),
              !.signalingWs = CloseWs(@),
              !.captionsWs = CloseWs(@)]

\* Mutant of CleanupOf: the sockets are closed before the peer connection.
CleanupSocketsFirst(s) ==
    [WebRTCCleanup(Disconnect([s EXCEPT !.released = <<>>]))
        EXCEPT !.isConnected = FALSE, !.connectionStatus = "disconnected"]

\* VideoCall cleanup()
CleanupOf(s) ==
    [Disconnect(WebRTCCleanup([s EXCEPT !.released = <<>>]))
        EXCEPT !.isConnected = FALSE, !.connectionStatus = "disconnected"]

\* cleanup() as called by endCall and by the effect's teardown. Closing the
\* peer connection leaves the operations queued on it unsettled for good;
\* the stopped tracks go with the stream; the captions and the two media
\* flags are not touched.
Cleanup(c) ==
    /\ LET s == CleanupOf(CallState(c))
       IN /\ localStream' = [localStream EXCEPT ![c] = s.localStream]
          /\ peerConnection' = [peerConnection EXCEPT ![c] = s.peerConnection]
          /\ signalingWs' = [signalingWs EXCEPT ![c] = s.signalingWs]
          /\ captionsWs' = [captionsWs EXCEPT ![c] = s.captionsWs]
          /\ isConnected' = [isConnected EXCEPT ![c] = s.isConnected]
          /\ connectionStatus' = [connectionStatus EXCEPT ![c] = s.connectionStatus]
          /\ lastRelease' = [lastRelease EXCEPT ![c] = s.released]
    /\ chain' = [chain EXCEPT ![c] = <<>>]
    /\ cleanupRuns' = [cleanupRuns EXCEPT ![c] = IF @ < 2 THEN @ + 1 ELSE @]
    /\ trackEnabled' = [trackEnabled EXCEPT ![c] = NewTracks]
    /\ UNCHANGED <<isAudioEnabled, isVideoEnabled,
                   initializeCall, inbox, outbox, toast, captions, sent,
                   emitted, lost, members, injected>>

(* ------------------------------ captions ------------------------------ *)
CaptionEvent(sp, t) == [speaker |-> sp, timestamp |-> t]

\* captionsWs.onmessage -> handleCaption(caption)
HandleCaption(prev, caption) == Append(prev, caption)

CaptionArrive(c, sp) ==
    /\ captionsWs[c] = "open"
    /\ Len(captions[c]) < MaxCaptions
    /\ captions' = [captions EXCEPT ![c] =
                        HandleCaption(@, CaptionEvent(sp, Len(@) + 1))]
    /\ UNCHANGED <<isAudioEnabled, isVideoEnabled, trackEnabled,
                   initializeCall, localStream, peerConnection, chain,
                   signalingWs, captionsWs, inbox, outbox, connectionStatus,
                   isConnected, toast, sent, emitted, lost, lastRelease,
                   cleanupRuns, members, injected>>

\* The captions each CaptionOverlay is given.
SelfTranscript(caps) == SelectSeq(caps, LAMBDA e : e.speaker = "You")

\* Mutant of RemoteTranscript: only the speaker "Remote" is kept.
RemoteTranscriptByName(caps) == SelectSeq(caps, LAMBDA e : e.speaker = "Remote")

RemoteTranscript(caps) == SelectSeq(caps, LAMBDA e : e.speaker # "You")

(* ------------------------------ controls ------------------------------ *)
\* WebRTCManager.toggleAudio(enabled) / toggleVideo(enabled): set the
\* enabled value of the tracks of that kind, if a stream is held.
WebRTCToggleAudio(stream, tracks, enabled) ==
    IF stream # "null" THEN [tracks EXCEPT !.audio = enabled] ELSE tracks

WebRTCToggleVideo(stream, tracks, enabled) ==
    IF stream # "null" THEN [tracks EXCEPT !.video = enabled] ELSE tracks

\* VideoCall toggleAudio: the button is there whatever the call's state is.
ToggleAudio(c) ==
    /\ trackEnabled' = [trackEnabled EXCEPT ![c] =
                           WebRTCToggleAudio(localStream[c], @, ~isAudioEnabled[c])]
    /\ isAudioEnabled' = [isAudioEnabled EXCEPT ![c] = ~@]
    /\ UNCHANGED <<initializeCall, localStream, peerConnection, chain,
                   signalingWs, captionsWs, inbox, outbox, connectionStatus,
                   isConnected, toast, captions, sent, emitted, lost,
                   lastRelease, cleanupRuns, members, injected, isVideoEnabled>>

\* VideoCall toggleVideo
ToggleVideo(c) ==
    /\ trackEnabled' = [trackEnabled EXCEPT ![c] =
                           WebRTCToggleVideo(localStream[c], @, ~isVideoEnabled[c])]
    /\ isVideoEnabled' = [isVideoEnabled EXCEPT ![c] = ~@]
    /\ UNCHANGED <<initializeCall, localStream, peerConnection, chain,
                   signalingWs, captionsWs, inbox, outbox, connectionStatus,
                   isConnected, toast, captions, sent, emitted, lost,
                   lastRelease, cleanupRuns, members, injected, isAudioEnabled>>

\* VideoCall downloadTranscript: the captions are serialised into a file
\* for the user; the button is disabled while there is no caption.
DownloadTranscript(c) ==
    /\ captions[c] # <<>>
    /\ UNCHANGED vars

(* ------------------------------- relay -------------------------------- *)
\* The relay takes the next envelope c transmitted. A join-room makes c a
\* member and tells the members already there that a peer joined; any other
\* envelope is forwarded, in order, to the other members of the room.
Forwarded(c, m) ==
    IF m.type = "join-room" THEN Envelope("peer-joined", m.roomId, 0) ELSE m

Relay(c) ==
    /\ outbox[c] # <<>>
    /\ LET m == Head(outbox[c])
       IN /\ members' = IF m.type = "join-room" THEN members \cup {c} ELSE members
          /\ inbox' = [d \in Ctrl |->
                         IF d # c /\ d \in members /\ signalingWs[d] = "open"
                         THEN Append(inbox[d], Forwarded(c, m))
                         ELSE inbox[d]]
    /\ outbox' = [outbox EXCEPT ![c] = Tail(@)]
    /\ UNCHANGED <<isAudioEnabled, isVideoEnabled, trackEnabled,
                   initializeCall, localStream, peerConnection, chain,
                   signalingWs, captionsWs, connectionStatus, isConnected,
                   toast, captions, sent, emitted, lost, lastRelease,
                   cleanupRuns, injected>>

(* ------------------------- specifications ----------------------------- *)
\* The signaling side of one controller, with the network free to hand it any
\* envelope. The events of the captions socket are in NextCaptions.
Next ==
    \E c \in Solo :
        \/ MediaGranted(c)
        \/ MediaDenied(c)
        \/ SigOpen(c)
        \/ SigClose(c)
        \/ \E t \in Inbound, r \in Rooms : Inject(c, t, r)
        \/ Deliver(c)
        \/ Settle(c)
        \/ LocalCandidate(c)
        \/ Cleanup(c)

Spec == Init /\ [][Next]_vars

\* Two controllers in one room, joined by the relay.
NextPair ==
    \E c \in Ctrl :
        \/ MediaGranted(c)
        \/ SigOpen(c)
        \/ Relay(c)
        \/ Deliver(c)
        \/ Settle(c)
        \/ LocalCandidate(c)

SpecPair == Init /\ [][NextPair]_vars

\* The caption channel and the controls of one controller.
NextCaptions ==
    \E c \in Solo :
        \/ MediaGranted(c)
        \/ CapOpen(c)
        \/ CapClose(c)
        \/ \E sp \in Speakers : CaptionArrive(c, sp)
        \/ ToggleAudio(c)
        \/ ToggleVideo(c)
        \/ DownloadTranscript(c)
        \/ Cleanup(c)

SpecCaptions == Init /\ [][NextCaptions]_vars

(* ============================== claims ================================ *)

\* C1: applying a remote candidate never fails: no candidate of the
\* session's room is rejected (one that arrives before the remote
\* description is kept and applied later), and the applied candidates are
\* in receipt order with no duplicate.
C1_CandidatesNeverLost ==
    \A c \in Ctrl :
        /\ \A h \in lost[c] : h.roomId # Room
        /\ LET a == peerConnection[c].applied
           IN \A i, j \in DOMAIN a : i < j => a[i] < a[j]

\* C2: in the two-controller scenario, never more than one offer and one
\* answer are transmitted, and once both have joined and every queue has
\* drained exactly one offer and one answer were exchanged and both sessions
\* are Stable.
Total(k) == sent["A"][k] + sent["B"][k]

Drained ==
    /\ members = Ctrl
    /\ \A c \in Ctrl : inbox[c] = <<>> /\ outbox[c] = <<>> /\ chain[c] = <<>>

C2_OneOfferOneAnswer ==
    /\ Total("offer") <= 1
    /\ Total("answer") <= 1
    /\ Drained =>
          /\ Total("offer") = 1
          /\ Total("answer") = 1
          /\ \A c \in Ctrl : NegState(peerConnection[c]) = "Stable"

C2_Witness ==
    /\ Drained
    /\ \A c \in Ctrl : NegState(peerConnection[c]) = "Stable"
    /\ \E c \in Ctrl : LocalDescription(peerConnection[c]).type = "offer"
    /\ \E c \in Ctrl : LocalDescription(peerConnection[c]).type = "answer"

\* C3: a peer connection creates at most one offer: a second createOffer()
\* with no close in between fails and leaves the first offer in place.
C3_SecondCreateOfferFails ==
    \A c \in Ctrl :
        /\ peerConnection[c].offersMade <= 1
        /\ LocalDescription(peerConnection[c]).type = "offer" =>
               LocalDescription(peerConnection[c]).id = 1

\* C4: handling an envelope whose roomId is not the session's room changes
\* nothing but the inbox it is taken from: no operation is queued on the peer
\* connection, nothing is sent, no state changes.
C4_ForeignRoomDropped ==
    [][\A c \in Ctrl :
          (Deliver(c) /\ Head(inbox[c]).roomId # Room) =>
              UNCHANGED <<peerConnection, chain, outbox, sent, lost,
                          connectionStatus, isConnected, toast>>]_vars

\* C5: cleanup() is idempotent: run twice in a row, the second run performs
\* no release action and leaves every handle and flag as the first left it.
\* The first conjunct runs cleanup() twice from the handles of the current
\* state, with the captions socket in any readyState; the second looks at
\* the second of two cleanup() calls of the run itself.
C5_EndIdempotent ==
    \A c \in Ctrl :
        /\ \A cw \in ReadyStates :
              LET once == CleanupOf([CallState(c) EXCEPT !.captionsWs = cw])
                  twice == CleanupOf(once)
              IN /\ twice.released = <<>>
                 /\ [twice EXCEPT !.released = once.released] = once
        /\ cleanupRuns[c] = 2 => lastRelease[c] = <<>>

C5_Witness ==
    \E c \in Ctrl :
        /\ cleanupRuns[c] = 2
        /\ initializeCall[c] = "resolved"
        /\ signalingWs[c] \in {"closing", "closed"}

\* C6 as the spec states it: the peer connection is closed first, then both
\* transports, and the local media is released last.
Before(a, b, log) ==
    \A i, j \in DOMAIN log : (log[i] = a /\ log[j] = b) => i < j

C6_PeerThenTransportsThenMedia ==
    \A c \in Ctrl :
        LET l == lastRelease[c]
        IN /\ Before("pc", "signaling", l)
           /\ Before("pc", "captions", l)
           /\ Before("signaling", "media", l)
           /\ Before("captions", "media", l)

\* C6 amended: cleanup() releases in a fixed order: the local media tracks
\* are stopped first, then the peer connection is closed, then the signaling
\* socket and then the captions socket are closed; each at most once.
InCodeOrder(l) ==
    /\ Before("media", "pc", l)
    /\ Before("media", "signaling", l)
    /\ Before("media", "captions", l)
    /\ Before("pc", "signaling", l)
    /\ Before("pc", "captions", l)
    /\ Before("signaling", "captions", l)
    /\ \A i, j \in DOMAIN l : l[i] = l[j] => i = j

C6_MediaThenPeerThenTransports ==
    \A c \in Ctrl :
        /\ InCodeOrder(lastRelease[c])
        /\ \A cw \in ReadyStates :
              InCodeOrder(CleanupOf([CallState(c) EXCEPT !.captionsWs = cw]).released)

C6_Witness ==
    \E c \in Ctrl : lastRelease[c] = <<"media", "pc", "signaling", "captions">>

\* C7: an envelope handed to sendSignaling while the signaling socket is not
\* open is dropped: nothing is transmitted in that step, and nothing is kept
\* for later, so the only envelope transmitted when the socket opens is the
\* join-room, and every transmission happens on an open socket.
C7_SendOnClosedDropped ==
    [][\A c \in Ctrl :
          /\ (LocalCandidate(c) /\ signalingWs[c] # "open") =>
                 outbox'[c] = outbox[c]
          /\ (Settle(c) /\ signalingWs[c] # "open") => outbox'[c] = outbox[c]
          /\ SigOpen(c) =>
                 outbox'[c] = Append(outbox[c], Envelope("join-room", Room, 0))
          /\ outbox'[c] # outbox[c] => signalingWs'[c] = "open"]_vars

\* A local candidate was discovered and handed to sendSignaling on a socket
\* that was not open: fewer candidates were transmitted than discovered.
C7_Witness ==
    \E c \in Ctrl :
        /\ signalingWs[c] \in {"closing", "closed"}
        /\ emitted[c] > sent[c]["ice-candidate"]

\* C8: the two transcripts partition the received caption events by speaker:
\* the self transcript holds only "You" events, the remote transcript only
\* the others, each in receipt order (timestamps rise), and every received
\* event is in exactly one of them, once.
Stamps(s) == {s[i].timestamp : i \in DOMAIN s}

Rising(s) == \A i, j \in DOMAIN s : i < j => s[i].timestamp < s[j].timestamp

C8_TranscriptsPartition ==
    \A c \in Ctrl :
        LET you == SelfTranscript(captions[c])
            rem == RemoteTranscript(captions[c])
        IN /\ \A i \in DOMAIN you : you[i].speaker = "You"
           /\ \A i \in DOMAIN rem : rem[i].speaker # "You"
           /\ Rising(you)
           /\ Rising(rem)
           /\ Stamps(you) \cup Stamps(rem) = 1 .. Len(captions[c])
           /\ Stamps(you) \cap Stamps(rem) = {}
           /\ Len(you) + Len(rem) = Len(captions[c])
           /\ \A i \in DOMAIN captions[c] : captions[c][i].timestamp = i

C8_Witness ==
    \E c \in Ctrl :
        /\ Len(captions[c]) = 3
        /\ captions[c][1].speaker = "You"
        /\ captions[c][2].speaker = "Remote"
        /\ captions[c][3].speaker = "You"
        /\ Len(SelfTranscript(captions[c])) = 2
        /\ Len(RemoteTranscript(captions[c])) = 1

\* C9: once the session has reached Stable (it has a current remote
\* description), a remote candidate is handed to the peer connection as it
\* arrives and is applied when its turn comes, never held back and never
\* rejected.
ReachedStable(p) == p.curRemote # NoDesc

C9_AppliedOnceStable ==
    [][\A c \in Ctrl :
          /\ (Deliver(c) /\ Head(inbox[c]).type = "ice-candidate"
                 /\ ReachedStable(peerConnection[c])) =>
                 chain'[c] = Append(chain[c], Op("addIceCandidate", Head(inbox[c])))
          /\ (Settle(c) /\ Head(chain[c]).op = "addIceCandidate"
                 /\ ReachedStable(peerConnection[c])) =>
                 /\ peerConnection'[c].applied =
                        Append(peerConnection[c].applied, Head(chain[c]).data)
                 /\ lost'[c] = lost[c]]_vars

\* A candidate that arrived after the answer was applied to a Stable session.
C9_Witness ==
    \E c \in Ctrl :
        LET p == peerConnection[c]
        IN /\ NegState(p) = "Stable"
           /\ p.curRemote.type = "answer"
           /\ \E i \in DOMAIN p.applied : p.applied[i] > p.curRemote.id

\* C10: when getUserMedia is refused, initializeCall ends there for good (no
\* retry), and from then on no socket has been opened, no peer connection and
\* no stream exists, the status is disconnected and the error toast is shown.
StartFailed(init, ws, cws, p, ls, st, t) ==
    init = "rejected" =>
        /\ ws = "null"
        /\ cws = "null"
        /\ p = NullPc
        /\ ls = "null"
        /\ st = "disconnected"
        /\ t = "connection-error"

C10_PermissionDeniedFatal ==
    [][\A c \in Ctrl :
          /\ initializeCall[c] = "rejected" => initializeCall'[c] = "rejected"
          /\ StartFailed(initializeCall'[c], signalingWs'[c], captionsWs'[c],
                         peerConnection'[c], localStream'[c],
                         connectionStatus'[c], toast'[c])]_vars

C10_Witness ==
    \E c \in Ctrl :
        /\ initializeCall[c] = "rejected"
        /\ connectionStatus[c] = "disconnected"
        /\ toast[c] = "connection-error"
        /\ cleanupRuns[c] > 0

\* C11: inbound envelopes are handled one at a time: the handler of an
\* envelope has finished (it is suspended on no operation any more) before
\* the handler of the next envelope starts, so never are two handlers
\* suspended at once; in particular addIceCandidate is never called for a
\* candidate while the handler of the offer before it is still suspended.
OfferHandlerOps == {"setRemoteOffer", "createAnswer", "setLocalAnswer"}

C11_OneEnvelopeAtATime ==
    \A c \in Ctrl :
        /\ Len(chain[c]) <= 1
        /\ \A i, j \in 1..Len(chain[c]) :
              i < j /\ chain[c][i].op \in OfferHandlerOps
                  => chain[c][j].op # "addIceCandidate"

\* C12: when the teardown has run while initializeCall() was still waiting
\* for the local media, the resumed initializeCall() acquires nothing: it
\* holds no local stream, opens no socket and creates no peer connection.
C12_NoAcquireAfterTeardown ==
    [][\A c \in Ctrl :
          initializeCall[c] = "awaiting-media" /\ cleanupRuns[c] > 0
          /\ initializeCall'[c] # "awaiting-media"
              => /\ localStream'[c] = "null"
                 /\ peerConnection'[c].state = "null"
                 /\ ~Closes(signalingWs'[c])
                 /\ ~Closes(captionsWs'[c])]_vars

\* The peer connection of c was created and cleanup() has discarded it.
Disposed(c) ==
    initializeCall[c] = "resolved" /\ peerConnection[c].state = "null"

\* C13 as the spec states it: cleanup() closes both transports before it
\* discards the peer connection, and once the peer connection is discarded
\* no handler is started and no suspended handler resumes.
C13_TransportsClosedThenDiscarded ==
    [][\A c \in Ctrl :
          /\ Before("signaling", "pc", lastRelease'[c])
          /\ Before("captions", "pc", lastRelease'[c])
          /\ Disposed(c) => ~Deliver(c) /\ ~Settle(c)]_vars

\* C13 amended: cleanup() discards the peer connection and closes both
\* transports in one step, the peer connection first; once the peer
\* connection is discarded no envelope starts a handler, no suspended
\* handler resumes, and no operation is left queued.
C13_NoOperationAfterDiscard ==
    [][\A c \in Ctrl :
          /\ Before("pc", "signaling", lastRelease'[c])
          /\ Before("pc", "captions", lastRelease'[c])
          /\ Disposed(c) => ~Deliver(c) /\ ~Settle(c)
          /\ Disposed(c)' => chain'[c] = <<>> /\ signalingWs'[c] # "open"]_vars

\* The peer connection was discarded while an envelope was on its way to
\* the socket; the envelope is still undelivered.
C13_Witness ==
    \E c \in Ctrl :
        /\ Disposed(c)
        /\ "pc" \in {lastRelease[c][i] : i \in DOMAIN lastRelease[c]}
        /\ inbox[c] # <<>>
        /\ signalingWs[c] = "closing"

\* C14: Stable is left only by teardown: from a Stable session no step leads
\* to Idle, HaveLocalOffer or HaveRemoteOffer; the only state after Stable
\* is Closed.
C14_StableLeftOnlyByClose ==
    [][\A c \in Ctrl :
          NegState(peerConnection[c]) = "Stable"
              => NegState(peerConnection'[c]) \in {"Stable", "Closed"}]_vars

\* The operation the handler h is suspended on is rejected by the peer
\* connection p.
Rejects(p, h) ==
    CASE h.op = "createOffer" -> ~CanCreateOffer(p)
      [] h.op = "setLocalOffer" -> ~CanSetLocalOffer(p)
      [] h.op = "setRemoteOffer" -> ~CanSetRemoteOffer(p)
      [] h.op = "createAnswer" -> ~CanCreateAnswer(p)
      [] h.op = "setLocalAnswer" -> ~CanSetLocalAnswer(p)
      [] h.op = "setRemoteAnswer" -> ~CanSetRemoteAnswer(p)
      [] OTHER -> ~CanAddIceCandidate(p)

\* C15: an error raised by a peer connection operation while an envelope is
\* handled is absorbed: the handler ends there and sends nothing, and the
\* connection status, the connected flag, the peer connection, the local
\* stream and both sockets are as before; the envelopes behind it are
\* still delivered, since delivery asks only for an open socket.
C15_OperationErrorAbsorbed ==
    [][\A c \in Ctrl :
          /\ (Settle(c) /\ Rejects(peerConnection[c], Head(chain[c]))) =>
                 /\ chain'[c] = Tail(chain[c])
                 /\ outbox'[c] = outbox[c]
                 /\ connectionStatus'[c] = connectionStatus[c]
                 /\ isConnected'[c] = isConnected[c]
                 /\ toast'[c] = toast[c]
                 /\ peerConnection'[c] = peerConnection[c]
                 /\ localStream'[c] = localStream[c]
                 /\ signalingWs'[c] = signalingWs[c]
                 /\ captionsWs'[c] = captionsWs[c]
                 /\ inbox'[c] = inbox[c]
          /\ (lost[c] # {} /\ signalingWs[c] = "open" /\ inbox[c] # <<>>
                 /\ Deliver(c)) =>
                 chain'[c] = chain[c] \o Guarded(peerConnection[c],
                                                 Dispatch(Head(inbox[c])))]_vars

\* A candidate was rejected, and a candidate that arrived after it was
\* handled and applied on the same peer connection.
C15_Witness ==
    \E c \in Ctrl :
        /\ lost[c] # {}
        /\ connectionStatus[c] = "connected"
        /\ \E i \in DOMAIN peerConnection[c].applied :
              \A h \in lost[c] : h.data < peerConnection[c].applied[i]

\* C16: handling a peer-left envelope sets the status to disconnected, clears
\* the connected flag and shows the peer-left toast, and changes nothing
\* else: the peer connection (handle, state, descriptions, candidates), the
\* operations queued on it, the local stream and both sockets are as
\* before, and no envelope is sent.
C16_PeerLeftOnlyMarks ==
    [][\A c \in Ctrl :
          (Deliver(c) /\ Head(inbox[c]).type = "peer-left") =>
              /\ connectionStatus'[c] = "disconnected"
              /\ isConnected'[c] = FALSE
              /\ toast'[c] = "peer-left"
              /\ peerConnection'[c] = peerConnection[c]
              /\ chain'[c] = chain[c]
              /\ localStream'[c] = localStream[c]
              /\ signalingWs'[c] = signalingWs[c]
              /\ captionsWs'[c] = captionsWs[c]
              /\ outbox'[c] = outbox[c]
              /\ sent'[c] = sent[c]
              /\ captions'[c] = captions[c]]_vars

\* A peer-left was handled on an established session: the session is marked
\* disconnected while its peer connection is still Stable and its signaling
\* socket is still open.
C16_Witness ==
    \E c \in Ctrl :
        /\ toast[c] = "peer-left"
        /\ connectionStatus[c] = "disconnected"
        /\ ~isConnected[c]
        /\ NegState(peerConnection[c]) = "Stable"
        /\ signalingWs[c] = "open"

\* C17: when the signaling socket opens exactly one join-room envelope with
\* the session's room is transmitted, it is the first envelope on that
\* socket and no other step transmits a join-room; an offer is transmitted
\* only by the handler of a received peer-joined envelope.
C17_JoinFirstOfferAfterPeerJoined ==
    [][\A c \in Ctrl :
          /\ SigOpen(c) =>
                 /\ outbox[c] = <<>>
                 /\ outbox'[c] = <<Envelope("join-room", Room, 0)>>
          /\ ~SigOpen(c) => sent'[c]["join-room"] = sent[c]["join-room"]
          /\ sent'[c]["offer"] > sent[c]["offer"] =>
                 /\ Settle(c)
                 /\ Head(chain[c]).kind = "peer-joined"
                 /\ outbox[c] # <<>>]_vars

\* The socket opened, the join-room went out first, and the offer made for
\* a received peer-joined went out after it.
C17_Witness ==
    \E c \in Ctrl :
        /\ Len(outbox[c]) >= 2
        /\ outbox[c][1] = Envelope("join-room", Room, 0)
        /\ outbox[c][2].type = "offer"
        /\ sent[c]["join-room"] = 1

\* C18: when the signaling socket has closed it is not connected again and
\* no further join-room is sent, and the closure ends the call: the
\* connection status is disconnected (neither connecting nor connected) and
\* the connected flag is cleared once the socket is closed.
C18_SignalingClosureTerminal ==
    [][\A c \in Ctrl :
          /\ signalingWs[c] = "closed" =>
                 /\ signalingWs'[c] = "closed"
                 /\ sent'[c]["join-room"] = sent[c]["join-room"]
          /\ signalingWs'[c] = "closed" =>
                 /\ connectionStatus'[c] = "disconnected"
                 /\ ~isConnected'[c]]_vars

\* C19: the transcript only grows, and only a teardown clears it: a caption
\* event appends exactly one entry behind the entries already there, the
\* export and the toggles leave it as it is, no other step changes it, and
\* after cleanup() it is empty.
C19_TranscriptClearedOnlyByTeardown ==
    [][\A c \in Ctrl :
          /\ (\E sp \in Speakers : CaptionArrive(c, sp)) =>
                 /\ Len(captions'[c]) = Len(captions[c]) + 1
                 /\ SubSeq(captions'[c], 1, Len(captions[c])) = captions[c]
          /\ (DownloadTranscript(c) \/ ToggleAudio(c) \/ ToggleVideo(c)) =>
                 captions'[c] = captions[c]
          /\ Cleanup(c) => captions'[c] = <<>>
          /\ ~Cleanup(c) =>
                 \/ captions'[c] = captions[c]
                 \/ /\ Len(captions'[c]) = Len(captions[c]) + 1
                    /\ SubSeq(captions'[c], 1, Len(captions[c])) = captions[c]]_vars

\* C20: the audio and video flags agree with the local tracks: whenever a
\* local stream is held, the enabled value of its audio tracks is the audio
\* flag and the enabled value of its video tracks is the video flag,
\* whatever the order of toggles, acquisition and teardown was.
C20_FlagsAgreeWithTracks ==
    \A c \in Ctrl :
        localStream[c] # "null" =>
            /\ trackEnabled[c].audio = isAudioEnabled[c]
            /\ trackEnabled[c].video = isVideoEnabled[c]

====
